---- MODULE Spec2Model ----
(***************************************************************************)
(* Verification model of apread/entries.py (Channel and Group).            *)
(*                                                                         *)
(* Two specifications share the variables:                                 *)
(*   Spec      - one Channel decoded from a byte buffer through a          *)
(*               BinaryReader: Channel.__init__ (in its three consecutive  *)
(*               parts: fields before the extended header, readExtHeader,  *)
(*               fields after it), then Channel.readData (with filter).    *)
(*   SpecGroup - Group.__init__ applied to a list of decoded channels.     *)
(*                                                                         *)
(* Numbers.  Integers of the wire format are decoded from their bytes,     *)
(* little endian, with their width and sign.  An IEEE float is a value     *)
(* determined by its bytes; its decoding lives in struct/numpy, outside    *)
(* the repository, and is modelled by a fixed-point stand-in: the value is *)
(* the signed 16-bit integer held in the first two bytes of the field.     *)
(* Samples are exact rationals [n, d] (n/d); floating-point rounding is    *)
(* not modelled.                                                           *)
(***************************************************************************)
EXTENDS Integers, Sequences, FiniteSets, TLC

VARIABLES
    buf,      \* BinaryReader.buf: the bytes of the file (never written)
    pos,      \* BinaryReader position (offset of the next byte read)
    pc,       \* where the decoding of the channel stands
    raisedIn, \* the part in which an exception propagated ("none" if none)
    pos0,     \* readExtHeader's local pos0 (-1 before it runs)
    ch,       \* the Channel object's attributes
    chans,    \* SpecGroup: the channel list handed to Group.__init__
    gpc,      \* SpecGroup: "new", "built" (constructor returned) or "raised"
    gerr,     \* SpecGroup: the exception Group.__init__ raised ("none" if none)
    grp       \* SpecGroup: the Group object's attributes

vars == <<buf, pos, pc, raisedIn, pos0, ch, chans, gpc, gerr, grp>>

chanVars == <<buf, pos, pc, raisedIn, pos0, ch>>
groupVars == <<chans, gpc, gerr, grp>>

(***************************************************************************)
(* Bounds of the model.                                                    *)
(***************************************************************************)
MaxLen == 2      \* largest declared channel length
MaxStr == 1      \* largest length of the name string
MaxFmt == 3      \* largest ExportFormat byte written
MaxPoi == 1      \* largest npoi written
HdrDrift == 1    \* declared header lengths range over 148 -/+ HdrDrift
MaxCh == 3       \* SpecGroup: longest channel list
MaxData == 2     \* SpecGroup: longest sample sequence of a channel

(***************************************************************************)
(* Little-endian decoding of the bytes at offset p of the buffer.          *)
(***************************************************************************)
U8At(p) == buf[p + 1]

U16At(p) == buf[p + 1] + 256 * buf[p + 2]

I16At(p) == IF U16At(p) >= 32768 THEN U16At(p) - 65536 ELSE U16At(p)

I32At(p) ==
    buf[p + 1] + 256 * buf[p + 2] + 65536 * buf[p + 3]
    + 16777216 * (IF buf[p + 4] >= 128 THEN buf[p + 4] - 256 ELSE buf[p + 4])

\* stand-in for the IEEE decoding of a 4- or 8-byte float (see the header)
FloatAt(p) == I16At(p)

(***************************************************************************)
(* BinaryReader.  A read of w bytes at p fails (OutOfBounds) unless        *)
(* p + w <= buffer length; otherwise it yields the value and p + w.        *)
(***************************************************************************)
Fail == [ok |-> FALSE, v |-> 0, p |-> 0]

Fits(p, w) == w >= 0 /\ p + w <= Len(buf)

read_byte(p) == IF Fits(p, 1) THEN [ok |-> TRUE, v |-> U8At(p), p |-> p + 1] ELSE Fail

read_char(p) == IF Fits(p, 1) THEN [ok |-> TRUE, v |-> U8At(p), p |-> p + 1] ELSE Fail

read_int16(p) == IF Fits(p, 2) THEN [ok |-> TRUE, v |-> I16At(p), p |-> p + 2] ELSE Fail

read_int32(p) == IF Fits(p, 4) THEN [ok |-> TRUE, v |-> I32At(p), p |-> p + 4] ELSE Fail

read_float(p) == IF Fits(p, 4) THEN [ok |-> TRUE, v |-> FloatAt(p), p |-> p + 4] ELSE Fail

read_double(p) == IF Fits(p, 8) THEN [ok |-> TRUE, v |-> FloatAt(p), p |-> p + 8] ELSE Fail

\* read_string(n): exactly n bytes; the text itself is kept as its bytes.
\* A negative n is no legal width and fails like an out-of-bounds read.
read_string(p, n) ==
    IF Fits(p, n) THEN [ok |-> TRUE, v |-> SubSeq(buf, p + 1, p + n), p |-> p + n]
    ELSE Fail

\* seek(target): legal inside [0, buffer length], backward included.
seek(target) ==
    IF target >= 0 /\ target <= Len(buf) THEN [ok |-> TRUE, v |-> 0, p |-> target]
    ELSE Fail

\* a length-prefixed string: read_string(read_int16())
read_lstring16(p) ==
    LET n == read_int16(p) IN IF n.ok THEN read_string(n.p, n.v) ELSE Fail

\* read_string(read_int32())
read_lstring32(p) ==
    LET n == read_int32(p) IN IF n.ok THEN read_string(n.p, n.v) ELSE Fail

(***************************************************************************)
(* Chaining of reads: the read named `what` at the position the read r     *)
(* left, unless r failed (the first failing read raises and ends a chain). *)
(***************************************************************************)
After(r, what) ==
    IF ~r.ok THEN Fail
    ELSE CASE what = "read_byte" -> read_byte(r.p)
           [] what = "read_char" -> read_char(r.p)
           [] what = "read_int16" -> read_int16(r.p)
           [] what = "read_int32" -> read_int32(r.p)
           [] what = "read_float" -> read_float(r.p)
           [] what = "read_double" -> read_double(r.p)
           [] what = "read_lstring16" -> read_lstring16(r.p)
           [] what = "read_lstring32" -> read_lstring32(r.p)

(***************************************************************************)
(* The Channel object.  Attributes not assigned yet hold the placeholder   *)
(* of NoChannel; exists says the constructor returned the object, hasData  *)
(* that self.data has been assigned.  Time = 0 stands for None.            *)
(***************************************************************************)
NoChannel ==
    [exists |-> FALSE, fastload |-> FALSE, filterData |-> FALSE,
     Time |-> 0, isTime |-> FALSE,
     num |-> 0, length |-> 0, Name |-> <<>>, unit |-> <<>>, comment |-> <<>>,
     format |-> 0, dw |-> 0, time |-> 0, nHdrBytes |-> 0,
     ExportFormat |-> 0, precision |-> 0,
     lmode |-> 0, scale |-> 0, npoi |-> 0, formula |-> <<>>, sensorInfo |-> <<>>,
     broken |-> FALSE, hasData |-> FALSE, data |-> <<>>, dataKind |-> "none"]

(***************************************************************************)
(* Channel.__init__, lines 47-85: the fields before the extended header.   *)
(***************************************************************************)
HeadReads(p) ==
    LET rNum  == read_int16(p)
        rLen  == After(rNum, "read_int32")
        rName == After(rLen, "read_lstring16")
        rUnit == After(rName, "read_lstring16")
        rCom  == After(rUnit, "read_lstring16")
        rFmt  == After(rCom, "read_int16")
        rDw   == After(rFmt, "read_int16")
        rTime == After(rDw, "read_double")
        rHdr  == After(rTime, "read_int32")
    IN  IF rHdr.ok
        THEN [ok |-> TRUE, p |-> rHdr.p,
              num |-> rNum.v, length |-> rLen.v, Name |-> rName.v,
              unit |-> rUnit.v, comment |-> rCom.v, format |-> rFmt.v,
              dw |-> rDw.v, time |-> rTime.v, nHdrBytes |-> rHdr.v]
        ELSE [ok |-> FALSE, p |-> p,
              num |-> 0, length |-> 0, Name |-> <<>>,
              unit |-> <<>>, comment |-> <<>>, format |-> 0,
              dw |-> 0, time |-> 0, nHdrBytes |-> 0]

InitHead(fl, fd) ==
    /\ pc = "new"
    /\ LET h == HeadReads(pos) IN
         IF h.ok
         THEN /\ ch' = [ch EXCEPT !.fastload = fl, !.filterData = fd,
                                  !.Time = 0, !.isTime = FALSE,
                                  !.num = h.num, !.length = h.length,
                                  !.Name = h.Name, !.unit = h.unit,
                                  !.comment = h.comment, !.format = h.format,
                                  !.dw = h.dw, !.time = h.time,
                                  !.nHdrBytes = h.nHdrBytes]
              /\ pos' = h.p
              /\ pc' = "exthdr"
              /\ UNCHANGED raisedIn
         ELSE /\ pc' = "raised"
              /\ raisedIn' = "head"
              /\ UNCHANGED <<pos, ch>>
    /\ UNCHANGED <<buf, pos0, groupVars>>

(***************************************************************************)
(* Channel.readExtHeader.  ExtLayout lists the widths of the fields in     *)
(* the order they are read (lines 134-169).                                *)
(***************************************************************************)
ExtLayout ==
    << 8, 8,                 \* T0, dt
       2, 2, 2, 2,           \* SensorType, SupplyVoltage, FiltChar, FiltFreq
       4, 4, 4,              \* TareVal, ZeroVal, MeasRange
       4, 4, 4, 4,           \* InChar[0..3]
       32, 8, 8,             \* SerNo, PhysUnit, NativeUnit
       2, 2, 2, 2,           \* Slot, SubSlot, AmpType, APType
       4, 4,                 \* kFactor, bFactor
       2, 2, 2,              \* MeasSig, AmpInput, HPFilt
       1, 1,                 \* OLImportInfo, ScaleType
       4,                    \* SoftwareTareVal
       1,                    \* WriteProtected
       3,                    \* padding
       4, 4,                 \* NominalRange, CLCFactor
       1,                    \* ExportFormat
       7 >>                  \* reserve

\* index of ExportFormat in ExtLayout
ExportFormatField == 33

RECURSIVE SumWidths(_, _)
SumWidths(from, to) ==
    IF from > to THEN 0 ELSE ExtLayout[from] + SumWidths(from + 1, to)

\* offset of field k from the start of the extended header
ExtOffset(k) == SumWidths(1, k - 1)

\* the reads of lines 134-169, one field after the other, from field k at p
RECURSIVE ReadLayout(_, _)
ReadLayout(p, k) ==
    IF k > Len(ExtLayout) THEN [ok |-> TRUE, v |-> 0, p |-> p]
    ELSE IF Fits(p, ExtLayout[k]) THEN ReadLayout(p + ExtLayout[k], k + 1)
    ELSE Fail

\* mutant of HdrMismatch: only a header declared longer than read is a mismatch
HdrMismatch_OnlyLonger(posN, p0, nHdrBytes) == (posN - p0) < nHdrBytes

\* line 173: the consumed bytes disagree with the declared length
HdrMismatch(posN, p0, nHdrBytes) == (posN - p0) # nHdrBytes

\* lines 131-187: [ok, p: reader position after, fmt: exthdr['ExportFormat']]
readExtHeader(p0, nHdrBytes) ==
    LET r == ReadLayout(p0, 1)
        fmtRead == U8At(p0 + ExtOffset(ExportFormatField))
    IN  IF ~r.ok THEN [ok |-> FALSE, p |-> p0, fmt |-> 0]
        ELSE IF HdrMismatch(r.p, p0, nHdrBytes)
        THEN LET s == seek(p0 + nHdrBytes) IN
             IF s.ok THEN [ok |-> TRUE, p |-> s.p, fmt |-> 0]
             ELSE [ok |-> FALSE, p |-> r.p, fmt |-> fmtRead]
        ELSE [ok |-> TRUE, p |-> r.p, fmt |-> fmtRead]

\* Channel.__init__, line 86
InitExtHeader ==
    /\ pc = "exthdr"
    /\ pos0' = pos
    /\ LET e == readExtHeader(pos, ch.nHdrBytes) IN
         /\ pos' = e.p
         /\ IF e.ok
            THEN /\ ch' = [ch EXCEPT !.ExportFormat = e.fmt]
                 /\ pc' = "tail"
                 /\ UNCHANGED raisedIn
            ELSE /\ pc' = "raised"
                 /\ raisedIn' = "ext"
                 /\ UNCHANGED ch
    /\ UNCHANGED <<buf, groupVars>>

(***************************************************************************)
(* Channel.__init__, lines 88-113: precision and the fields after the      *)
(* extended header.                                                        *)
(***************************************************************************)
\* lines 88-93: precDict, and 8 on KeyError
precDict(exportFormat) ==
    CASE exportFormat = 0 -> 8
      [] exportFormat = 1 -> 4
      [] exportFormat = 2 -> 2
      [] OTHER -> 8

\* lines 102-103: npoi doubles read away
RECURSIVE ReadAway(_, _)
ReadAway(p, n) ==
    IF n <= 0 THEN [ok |-> TRUE, v |-> 0, p |-> p]
    ELSE LET r == read_double(p) IN IF r.ok THEN ReadAway(r.p, n - 1) ELSE Fail

TailReads(p) ==
    LET rLmode  == read_char(p)
        rScale  == After(rLmode, "read_char")
        rNpoi   == After(rScale, "read_byte")
        rAway   == IF rNpoi.ok THEN ReadAway(rNpoi.p, rNpoi.v) ELSE Fail
        rThermo == After(rAway, "read_int16")
        rForm   == After(rThermo, "read_lstring16")
        rSens   == After(rForm, "read_lstring32")
    IN  IF rSens.ok
        THEN [ok |-> TRUE, p |-> rSens.p, lmode |-> rLmode.v, scale |-> rScale.v,
              npoi |-> rNpoi.v, formula |-> rForm.v, sensorInfo |-> rSens.v]
        ELSE [ok |-> FALSE, p |-> p, lmode |-> 0, scale |-> 0,
              npoi |-> 0, formula |-> <<>>, sensorInfo |-> <<>>]

InitTail ==
    /\ pc = "tail"
    /\ LET t == TailReads(pos) IN
         IF t.ok
         THEN /\ ch' = [ch EXCEPT !.precision = precDict(ch.ExportFormat),
                                  !.lmode = t.lmode, !.scale = t.scale,
                                  !.npoi = t.npoi, !.formula = t.formula,
                                  !.sensorInfo = t.sensorInfo,
                                  !.broken = FALSE, !.exists = TRUE]
              /\ pos' = t.p
              /\ pc' = "decoded"
              /\ UNCHANGED raisedIn
         ELSE /\ pc' = "raised"
              /\ raisedIn' = "tail"
              /\ ch' = [ch EXCEPT !.precision = precDict(ch.ExportFormat)]
              /\ UNCHANGED pos
    /\ UNCHANGED <<buf, pos0, groupVars>>

(***************************************************************************)
(* Channel.readData and Channel.filter.                                    *)
(***************************************************************************)
Sample(n, d) == [n |-> n, d |-> d]

\* line 207/223: the divisor of the scale factor
ScaleDivisor == 32767

\* lines 207-208, 223-226: v*sf + MinValue with sf = (MaxValue-MinValue)/32767,
\* as the exact rational (v*(MaxValue-MinValue) + 32767*MinValue) / 32767
Descale(v, MinValue, MaxValue) ==
    Sample(v * (MaxValue - MinValue) + ScaleDivisor * MinValue, ScaleDivisor)

\* the raw 16-bit value the fastload branch decodes: dtype 'u2' (line 208)
RawFast(p) == U16At(p)

\* the raw 16-bit value the loop branch decodes: read_int16 (line 226)
RawLoop(p) == I16At(p)

\* the float the body holds at p, as a sample
FloatSample(p) == Sample(FloatAt(p), 1)

\* np.fromfile(buf, dtype of width w, count): the whole items that are left,
\* at most count of them when count >= 0, all of them when count < 0; a
\* short file yields a shorter array, with no error.
FromFileCount(p, w, count) ==
    LET avail == (Len(buf) - p) \div w
    IN  IF count < 0 \/ count > avail THEN avail ELSE count

\* mutant of LoopCount: the loop runs once more, range(length + 1)
LoopCount_OneMore(p, w, length) ==
    LET avail == (Len(buf) - p) \div w
        want == IF length + 1 < 0 THEN 0 ELSE length + 1
    IN  IF want > avail THEN avail ELSE want

\* for i in range(length): append(read): the reads that succeed
LoopCount(p, w, length) ==
    LET avail == (Len(buf) - p) \div w
        want == IF length < 0 THEN 0 ELSE length
    IN  IF want > avail THEN avail ELSE want

LoopOk(p, w, length) == length <= (Len(buf) - p) \div w

\* line 235: n of the moving average
FilterTaps == 50

RECURSIVE WindowSum(_, _, _)
WindowSum(data, i, k) ==
    IF k = 0 \/ i < 1 THEN 0 ELSE data[i].n + WindowSum(data, i - 1, k - 1)

\* lines 233-238: lfilter([1/n]*n, 1, data): y[i] = sum of x[i-n+1..i] / n
filter(data) ==
    [i \in 1..Len(data) |->
        Sample(WindowSum(data, i, FilterTaps), data[i].d * FilterTaps)]

\* lines 200-226: [ok, p, set: self.data assigned, data, kind]
readBody(p, precision, length, fastload) ==
    IF fastload
    THEN IF precision = 8 \/ precision = 4
         THEN LET n == FromFileCount(p, precision, length) IN
              [ok |-> TRUE, p |-> p + n * precision, set |-> TRUE, kind |-> "ndarray",
               data |-> [i \in 1..n |-> FloatSample(p + (i - 1) * precision)]]
         ELSE IF precision = 2
         THEN LET rMin == read_double(p)
                  rMax == After(rMin, "read_double")
              IN  IF ~rMax.ok
                  THEN [ok |-> FALSE, p |-> p, set |-> FALSE, kind |-> "none",
                        data |-> <<>>]
                  ELSE LET n == FromFileCount(rMax.p, 2, length) IN
                       [ok |-> TRUE, p |-> rMax.p + n * 2, set |-> TRUE,
                        kind |-> "ndarray",
                        data |-> [i \in 1..n |->
                                    Descale(RawFast(rMax.p + (i - 1) * 2),
                                            rMin.v, rMax.v)]]
         ELSE [ok |-> TRUE, p |-> p, set |-> FALSE, kind |-> "none", data |-> <<>>]
    ELSE IF precision = 8 \/ precision = 4
         THEN LET n == LoopCount(p, precision, length) IN
              [ok |-> LoopOk(p, precision, length), p |-> p + n * precision,
               set |-> TRUE, kind |-> "list",
               data |-> [i \in 1..n |-> FloatSample(p + (i - 1) * precision)]]
         ELSE IF precision = 2
         THEN LET rMin == read_double(p)
                  rMax == After(rMin, "read_double")
              IN  IF ~rMax.ok
                  THEN [ok |-> FALSE, p |-> p, set |-> TRUE, kind |-> "list",
                        data |-> <<>>]
                  ELSE LET n == LoopCount(rMax.p, 2, length) IN
                       [ok |-> LoopOk(rMax.p, 2, length), p |-> rMax.p + n * 2,
                        set |-> TRUE, kind |-> "list",
                        data |-> [i \in 1..n |->
                                    Descale(RawLoop(rMax.p + (i - 1) * 2),
                                            rMin.v, rMax.v)]]
         ELSE [ok |-> TRUE, p |-> p, set |-> TRUE, kind |-> "list", data |-> <<>>]

\* lines 189-231
readData ==
    /\ pc = "decoded"
    /\ IF ch.broken
       THEN /\ pc' = "read"
            /\ UNCHANGED <<pos, ch, raisedIn>>
       ELSE LET b == readBody(pos, ch.precision, ch.length, ch.fastload) IN
            /\ pos' = b.p
            /\ IF b.ok
               THEN /\ pc' = "read"
                    /\ UNCHANGED raisedIn
                    /\ ch' = IF ch.filterData
                             THEN [ch EXCEPT !.hasData = TRUE, !.dataKind = "ndarray",
                                             !.data = filter(b.data)]
                             ELSE [ch EXCEPT !.hasData = b.set, !.dataKind = b.kind,
                                             !.data = b.data]
               ELSE /\ pc' = "raised"
                    /\ raisedIn' = "readData"
                    /\ ch' = [ch EXCEPT !.hasData = b.set, !.dataKind = b.kind,
                                        !.data = b.data]
    /\ UNCHANGED <<buf, pos0, groupVars>>

(***************************************************************************)
(* The files decoded: the wire format of one channel record, written from  *)
(* a few parameters, and cut short at one of a few places.                 *)
(***************************************************************************)
EncI16(v) ==
    LET u == IF v < 0 THEN v + 65536 ELSE v IN <<u % 256, u \div 256>>

EncI32(v) ==
    LET low == v % 16777216
        hi  == (v - low) \div 16777216
    IN  <<low % 256, (low \div 256) % 256, low \div 65536,
          IF hi < 0 THEN hi + 256 ELSE hi>>

\* the stand-in float encoding: the value in the first two bytes
EncFloat(v, w) == EncI16(v) \o [i \in 1..(w - 2) |-> 0]

Zeros(n) == [i \in 1..n |-> 0]

Text(n) == [i \in 1..n |-> 65]

\* the raw 16-bit values the samples of a 2-byte body are taken from
SampleVals == <<0, 32767, 32768, 65535>>

SampleVal(seed, i) == SampleVals[((seed + i - 1) % Len(SampleVals)) + 1]

\* the value of sample i of a float body
FloatVal(seed, i) == SampleVal(seed, i) \div 4 - 8191

\* the calibration pairs <<MinValue, MaxValue>> written before a 2-byte body
Calibrations == << <<0, 100>>, <<-5, 7>> >>

\* an extended header of `physical` bytes with the ExportFormat byte in place
EncExtHeader(fmt, physical) ==
    LET off  == ExtOffset(ExportFormatField)
        full == Zeros(off) \o <<fmt>> \o Zeros(SumWidths(1, Len(ExtLayout)) - off - 1)
    IN  IF physical <= Len(full) THEN SubSeq(full, 1, physical)
        ELSE full \o Zeros(physical - Len(full))

\* the body as a writer of export format fmt lays it out, `have` samples long
EncBody(fmt, have, seed, cal) ==
    LET RECURSIVE Items(_)
        Items(i) ==
            IF i > have THEN <<>>
            ELSE (IF fmt = 2 THEN EncI16(SampleVal(seed, i) - (IF SampleVal(seed, i) >= 32768 THEN 65536 ELSE 0))
                  ELSE IF fmt = 1 THEN EncFloat(FloatVal(seed, i), 4)
                  ELSE EncFloat(FloatVal(seed, i), 8)) \o Items(i + 1)
    IN  (IF fmt = 2
         THEN EncFloat(Calibrations[cal][1], 8) \o EncFloat(Calibrations[cal][2], 8)
         ELSE <<>>) \o Items(1)

EncHead(f) ==
    EncI16(1) \o EncI32(f.length)
    \o EncI16(f.nameLen) \o Text(f.nameLen)
    \o EncI16(1) \o Text(1)
    \o EncI16(0)
    \o EncI16(0) \o EncI16(8)
    \o EncFloat(0, 8)
    \o EncI32(f.declared)

EncTail(f) ==
    <<0, 0, f.npoi>> \o Zeros(8 * f.npoi)
    \o EncI16(0)
    \o EncI16(0)
    \o EncI32(0)

EncRecord(f) ==
    EncHead(f) \o EncExtHeader(f.fmt, f.physical) \o EncTail(f)
    \o EncBody(f.fmt, f.have, f.seed, f.cal)

\* the places a file is cut short at: 0 whole, 1 in the fields before the
\* extended header, 2 inside the extended header, 3 after the two bytes that
\* follow it, 4 three bytes before its end
Cut(f) ==
    LET full == EncRecord(f)
        head == Len(EncHead(f))
    IN  CASE f.cut = 1 -> SubSeq(full, 1, 5)
          [] f.cut = 2 -> SubSeq(full, 1, head + 100)
          [] f.cut = 3 -> SubSeq(full, 1, head + f.physical + 2)
          [] f.cut = 4 -> SubSeq(full, 1, Len(full) - 3)
          [] OTHER -> full

FixedHdrBytes == SumWidths(1, Len(ExtLayout))

\* a seek target far outside any of the files
FarOff == 1000

\* <<declared nHdrBytes, bytes of extended header physically present>>
HdrShapes ==
    {<<FixedHdrBytes, FixedHdrBytes>>}
    \cup {<<FixedHdrBytes + d, FixedHdrBytes>> : d \in (-HdrDrift..HdrDrift) \ {0}}
    \cup {<<FixedHdrBytes + d, FixedHdrBytes + d>> : d \in (-HdrDrift..HdrDrift) \ {0}}
    \cup {<<0 - FarOff, FixedHdrBytes>>, <<FarOff, FixedHdrBytes>>}

\* the parameters a file is written from
File(l, n, h, e, k, hv, sd, c, ct) ==
    [length |-> l, nameLen |-> n, declared |-> h[1], physical |-> h[2],
     fmt |-> e, npoi |-> k, have |-> hv, seed |-> sd, cal |-> c, cut |-> ct]

\* the numbers of samples a body holds for a declared length: one fewer, as
\* many, one more, or none
Haves(l) == {hv \in {l - 1, l, l + 1, 0} : hv >= 0}

\* the files: parameters that change nothing in a file are fixed (a file
\* that is cut short has no samples and no points; one cut before the end of
\* the header has ExportFormat 0)
FileOf(b) ==
    \E ct \in 0..4, l \in -1..MaxLen, h \in HdrShapes :
      \E n \in (IF ct = 4 THEN {0} ELSE 0..MaxStr),
         e \in (IF ct \in 1..3 THEN {0} ELSE 0..MaxFmt),
         k \in (IF ct # 0 THEN {0} ELSE 0..MaxPoi),
         hv \in (IF ct # 0 THEN {0} ELSE Haves(l)) :
        \E sd \in (IF hv = 0 THEN {0} ELSE 0..(Len(SampleVals) - 1)),
           c \in (IF e = 2 THEN 1..Len(Calibrations) ELSE {1}) :
          /\ (ct = 4 => h[1] = h[2])
          /\ b = Cut(File(l, n, h, e, k, hv, sd, c, ct))

(***************************************************************************)
(* Group.__init__.  The channels of the list are decoded Channel objects;  *)
(* a channel is referred to by its place in the list (0 stands for None).  *)
(* Time samples are rationals over the denominator 10^TimeDenExp.          *)
(***************************************************************************)
TimeDenExp == 7

RECURSIVE Pow10(_)
Pow10(e) == IF e <= 0 THEN 1 ELSE 10 * Pow10(e - 1)

TimeDen == Pow10(TimeDenExp)

\* the time m * 10^e seconds as a sample
Dec(m, e) == Sample(m * Pow10(TimeDenExp + e), TimeDen)

\* s < 10^(-e), for e >= 0 (lines 449, 452, 455)
LessThanPow10(s, e) == s.n <= (s.d - 1) \div Pow10(e)

\* mutant of UnitFac: the checks as an if/elif chain, the first one met deciding
UnitFac_FirstMatch(t) ==
    IF LessThanPow10(t, 0) THEN [unit |-> "ms", facExp |-> 3]
    ELSE IF LessThanPow10(t, 3) THEN [unit |-> "ns", facExp |-> 6]
    ELSE IF LessThanPow10(t, 6) THEN [unit |-> "μs", facExp |-> 9]
    ELSE [unit |-> "s", facExp |-> 0]

\* lines 447-457: the threshold checks, each overriding the one before
UnitFac(t) ==
    LET s0 == [unit |-> "s", facExp |-> 0]
        s1 == IF LessThanPow10(t, 0) THEN [unit |-> "ms", facExp |-> 3] ELSE s0
        s2 == IF LessThanPow10(t, 3) THEN [unit |-> "ns", facExp |-> 6] ELSE s1
        s3 == IF LessThanPow10(t, 6) THEN [unit |-> "μs", facExp |-> 9] ELSE s2
    IN  s3

\* n / d rounded to the nearest integer, ties to even (d > 0)
RoundDiv(n, d) ==
    LET q == n \div d
        r == n % d
    IN  IF 2 * r < d THEN q
        ELSE IF 2 * r > d THEN q + 1
        ELSE IF q % 2 = 0 THEN q ELSE q + 1

\* t * 10^facExp in thousandths, rounded as the format ".3f" rounds
Thousandths(t, facExp) ==
    LET e == facExp + 3 - TimeDenExp
    IN  IF e >= 0 THEN t.n * Pow10(e) ELSE RoundDiv(t.n, Pow10(0 - e))

Digit == <<"0", "1", "2", "3", "4", "5", "6", "7", "8", "9">>

RECURSIVE Decimal(_)
Decimal(n) ==
    IF n < 10 THEN Digit[n + 1] ELSE Decimal(n \div 10) \o Digit[(n % 10) + 1]

\* f"{x:.3f}" of the number of thousandths th
Format3f(th) ==
    LET a == IF th < 0 THEN 0 - th ELSE th
        f == a % 1000
    IN  (IF th < 0 THEN "-" ELSE "") \o Decimal(a \div 1000) \o "."
        \o Digit[(f \div 100) + 1] \o Digit[((f \div 10) % 10) + 1] \o Digit[(f % 10) + 1]

\* line 459
IntervalStr(t) ==
    LET uf == UnitFac(t) IN Format3f(Thousandths(t, uf.facExp)) \o uf.unit

\* line 423: the first channel marked isTime, 0 if there is none
RECURSIVE FirstTime(_, _)
FirstTime(channels, i) ==
    IF i > Len(channels) THEN 0
    ELSE IF channels[i].isTime THEN i ELSE FirstTime(channels, i + 1)

\* lines 441-444: the channels not marked isTime, in list order
RECURSIVE OtherChannels(_, _)
OtherChannels(channels, i) ==
    IF i > Len(channels) THEN <<>>
    ELSE (IF ~channels[i].isTime THEN <<i>> ELSE <<>>) \o OtherChannels(channels, i + 1)

\* the exception Group.__init__ raises on the list, "none" if it returns
GroupError(channels) ==
    LET timeC == FirstTime(channels, 1) IN
    IF timeC = 0 THEN "AttributeError"              \* line 436: self.Name unset
    ELSE IF ~channels[timeC].hasData THEN "AttributeError"   \* line 449: no data
    ELSE IF Len(channels[timeC].data) < 2 THEN "IndexError"  \* line 449: data[1]
    ELSE IF channels[timeC].data[2].n = 0 /\ channels[timeC].dataKind = "list"
         THEN "ZeroDivisionError"                   \* line 461, a Python float
    ELSE "none"

\* line 461: 1/t; a numpy float divided by zero gives inf
Frequency(t) ==
    IF t.n = 0 THEN [kind |-> "inf", n |-> 1, d |-> 0]
    ELSE [kind |-> "num", n |-> t.d, d |-> t.n]

\* lines 413-461
GroupInit ==
    /\ gpc = "new"
    /\ LET timeC == FirstTime(chans, 1)
           e == GroupError(chans)
       IN  IF e # "none"
           THEN /\ gpc' = "raised"
                /\ gerr' = e
                /\ UNCHANGED grp
           ELSE LET t == chans[timeC].data[2] IN
                /\ gpc' = "built"
                /\ gerr' = "none"
                /\ grp' = [exists |-> TRUE, Channels |-> [i \in 1..Len(chans) |-> i],
                           ChannelX |-> timeC,
                           ChannelsY |-> OtherChannels(chans, 1),
                           Name |-> chans[timeC].Name, hasName |-> TRUE,
                           intervalstr |-> IntervalStr(t),
                           interval |-> [n |-> t.n, d |-> t.d, per |-> 1000],
                           frequency |-> Frequency(t)]
    /\ UNCHANGED <<chans, chanVars>>

\* the second samples of the time channels handed to Group.__init__
TimeVals ==
    {Dec(0, 0), Dec(5, -7), Dec(1, -6), Dec(5, -4), Dec(1, -3), Dec(12346, -7),
     Dec(5, -1), Dec(1, 0), Dec(2, 0), Dec(-5, -7)}

\* a decoded channel as Group.__init__ receives it, with the attributes the
\* constructor reads: isTime as the caller marked it, Time as Channel.__init__
\* left it (line 54), `len` samples that start at 0 and step by t
GroupChannel(i, isTime, kind, len, t) ==
    [Name |-> <<64 + i>>, isTime |-> isTime, Time |-> 0, length |-> len,
     hasData |-> (kind # "none"), dataKind |-> kind,
     data |-> IF kind = "none" THEN <<>>
              ELSE [j \in 1..len |-> Sample((j - 1) * t.n, t.d)]]

DataKinds == {"none", "list", "ndarray"}

NoGroup ==
    [exists |-> FALSE, Channels |-> <<>>, ChannelX |-> 0, ChannelsY |-> <<>>,
     Name |-> <<>>, hasName |-> FALSE, intervalstr |-> "", interval |-> [n |-> 0, d |-> 1, per |-> 1],
     frequency |-> [kind |-> "none", n |-> 0, d |-> 1]]

Init ==
    /\ FileOf(buf)
    /\ pos = 0
    /\ pc = "new"
    /\ raisedIn = "none"
    /\ pos0 = -1
    /\ ch = NoChannel
    /\ chans = <<>>
    /\ gpc = "idle"
    /\ gerr = "none"
    /\ grp = NoGroup

Next ==
    \/ \E fl \in BOOLEAN, fd \in BOOLEAN : InitHead(fl, fd)
    \/ InitExtHeader
    \/ InitTail
    \/ readData

Spec == Init /\ [][Next]_vars

InitGroup ==
    /\ buf = <<>>
    /\ pos = 0
    /\ pc = "idle"
    /\ raisedIn = "none"
    /\ pos0 = -1
    /\ ch = NoChannel
    /\ \E n \in 0..MaxCh, len \in 0..MaxData, kind \in DataKinds, t \in TimeVals :
         \E flags \in [1..n -> BOOLEAN] :
            chans = [i \in 1..n |-> GroupChannel(i, flags[i], kind, len, t)]
    /\ gpc = "new"
    /\ gerr = "none"
    /\ grp = NoGroup

NextGroup == GroupInit

SpecGroup == InitGroup /\ [][NextGroup]_vars

(***************************************************************************)
(* Claims about Channel, checked under Spec.                               *)
(***************************************************************************)
\* the step of readData on a channel that is not broken
ReadDataStep == pc = "decoded" /\ pc' # pc /\ ~ch.broken

\* C1: for a non-broken channel of precision 2 (filterData off, the file
\* holding MinValue, MaxValue and at least `length` raw values), readData
\* consumes the two doubles, reads exactly `length` raw 16-bit values as
\* UNSIGNED integers and stores v*((MaxValue-MinValue)/32767)+MinValue for
\* each, on the fastload path and on the loop path alike.
C1_UnsignedDescale ==
    [][(/\ ReadDataStep
        /\ ch.precision = 2 /\ ~ch.filterData
        /\ ch.length >= 0
        /\ Len(buf) - pos >= 16 + 2 * ch.length)
       => (/\ pc' = "read"
           /\ pos' = pos + 16 + 2 * ch.length
           /\ Len(ch'.data) = ch.length
           /\ \A i \in 1..Len(ch'.data) :
                 LET v == U16At(pos + 16 + 2 * (i - 1))
                     MinValue == FloatAt(pos)
                     MaxValue == FloatAt(pos + 8)
                 IN  /\ v \in 0..65535
                     /\ ch'.data[i].d = 32767
                     /\ ch'.data[i].n = v * (MaxValue - MinValue) + 32767 * MinValue)]_vars

\* C2: whenever the declared nHdrBytes differs from the bytes the fixed
\* field sequence consumes, readExtHeader does not raise, leaves ExportFormat
\* 0 and the reader at exactly pos0 + nHdrBytes.
C2_FallbackNeverRaises ==
    (pos0 >= 0 /\ ch.nHdrBytes # FixedHdrBytes)
    => (/\ raisedIn # "ext"
        /\ (pc = "tail" => (pos = pos0 + ch.nHdrBytes /\ ch.ExportFormat = 0)))

C8_ErrorMarksBroken ==
    /\ (pc = "raised" /\ raisedIn \in {"head", "ext", "tail"}) => (ch.exists /\ ch.broken)
    /\ pc = "decoded" => (ch.exists /\ ~ch.broken /\ ~ch.hasData)

\* C9: once the header is decoded, precision is 8, 4 or 2, and a function of
\* nHdrBytes and of the ExportFormat byte read (at offset 140 of the extended
\* header): by 0->8, 1->4, 2->2, other->8 when nHdrBytes is the 148 bytes the
\* fixed layout consumes, and 8 otherwise.
C9_PrecisionResolution ==
    ch.exists =>
        LET byte == U8At(pos0 + 140)
            consumed == 8+8 + 4*2 + 3*4 + 4*4 + 32+8+8 + 4*2 + 2*4 + 3*2 + 1+1
                        + 4 + 1 + 3 + 4+4 + 1 + 7
        IN  /\ consumed = 148
            /\ FixedHdrBytes = consumed
            /\ ch.precision \in {8, 4, 2}
            /\ ch.precision =
                 IF ch.nHdrBytes = 148
                 THEN (IF byte = 0 THEN 8 ELSE IF byte = 1 THEN 4
                       ELSE IF byte = 2 THEN 2 ELSE 8)
                 ELSE 8

\* C9 witness: a decoded channel whose declared header length is not 148 and
\* whose ExportFormat byte read was 2, resolved to precision 8
C9_Witness ==
    /\ ch.exists /\ pc = "decoded"
    /\ ch.nHdrBytes # 148 /\ U8At(pos0 + 140) = 2 /\ ch.precision = 8

\* C10: whenever readData completes on a non-broken channel (of a declared
\* length that is not negative), the sample sequence has exactly `length`
\* elements, and the length is the one the header declared.
C10_DataHasDeclaredLength ==
    (pc = "read" /\ ~ch.broken /\ ch.length >= 0)
    => (ch.hasData /\ Len(ch.data) = ch.length)

(***************************************************************************)
(* Claims about Group, checked under SpecGroup.                            *)
(***************************************************************************)
\* the channels of the list that are not marked isTime, in list order
NonTimeInOrder ==
    LET RECURSIVE From(_)
        From(i) == IF i > Len(chans) THEN <<>>
                   ELSE IF chans[i].isTime THEN From(i + 1) ELSE <<i>> \o From(i + 1)
    IN  From(1)

\* the second sample of the group's time channel
SecondSample == chans[grp.ChannelX].data[2]

\* C3: a constructed Group has ChannelX the first channel marked isTime,
\* ChannelsY the channels not marked isTime in list order, and every channel
\* of ChannelsY has its Time reference equal to ChannelX.
C3_YChannelsReferenceX ==
    gpc = "built" =>
        /\ grp.ChannelX # 0 /\ chans[grp.ChannelX].isTime
        /\ \A j \in 1..(grp.ChannelX - 1) : ~chans[j].isTime
        /\ grp.ChannelsY = NonTimeInOrder
        /\ \A k \in 1..Len(grp.ChannelsY) : chans[grp.ChannelsY[k]].Time = grp.ChannelX

\* C4: constructing a Group from one or more channels none of which is
\* marked isTime completes, with ChannelX absent and every channel in ChannelsY.
C4_NoTimeChannelStillBuilds ==
    (gpc # "new" /\ Len(chans) > 0 /\ \A i \in 1..Len(chans) : ~chans[i].isTime)
    => (/\ gpc = "built"
        /\ grp.ChannelX = 0
        /\ grp.ChannelsY = [i \in 1..Len(chans) |-> i])

\* C5: constructing a Group whose time channel holds fewer than two samples
\* completes, with the frequency marked unusable.
C5_DegenerateTimeChannelBuilds ==
    (/\ gpc # "new"
     /\ \E i \in 1..Len(chans) : chans[i].isTime
     /\ \A i \in 1..Len(chans) :
           chans[i].isTime => (chans[i].hasData /\ Len(chans[i].data) < 2))
    => (gpc = "built" /\ grp.frequency.kind \notin {"num", "inf"})

\* C6 as stated: for a time channel whose second sample is 0.0005 the unit
\* is "ms" and intervalstr is "0.500ms".
C6_HalfMillisecondIsMs ==
    (gpc = "built" /\ SecondSample = Dec(5, -4)) => grp.intervalstr = "0.500ms"

\* C6 amended: a constructed Group has intervalstr = (second sample * fac)
\* printed with three decimals followed by the unit, where the last threshold
\* the sample is below decides: below 1e-6 "μs" and 1e9, else below 1e-3 "ns"
\* and 1e6, else below 1 "ms" and 1e3, else "s" and 1; its frequency is
\* 1 / second sample; and for the second sample 0.0005 intervalstr is
\* "500.000ns".
C6_IntervalByLastThreshold ==
    gpc = "built" =>
        LET t == SecondSample
            below6 == t.n < Pow10(TimeDenExp - 6)
            below3 == t.n < Pow10(TimeDenExp - 3)
            below0 == t.n < Pow10(TimeDenExp)
            unit == IF below6 THEN "μs" ELSE IF below3 THEN "ns"
                    ELSE IF below0 THEN "ms" ELSE "s"
            facExp == IF below6 THEN 9 ELSE IF below3 THEN 6
                      ELSE IF below0 THEN 3 ELSE 0
        IN  /\ t.d = Pow10(TimeDenExp)
            /\ grp.intervalstr = Format3f(Thousandths(t, facExp)) \o unit
            /\ (t.n # 0 => /\ grp.frequency.kind = "num"
                           /\ grp.frequency.n = t.d /\ grp.frequency.d = t.n)
            /\ (t.n = 0 => grp.frequency.kind = "inf")
            /\ (t = Dec(5, -4) => grp.intervalstr = "500.000ns")
            /\ (t = Dec(5, -1) => grp.intervalstr = "500.000ms")
            /\ (t = Dec(12346, -7) => grp.intervalstr = "1.235ms")
            /\ (t = Dec(2, 0) => grp.intervalstr = "2.000s")
            /\ (t = Dec(5, -7) => grp.intervalstr = "500.000μs")

\* C6 witness: a Group built over a time channel whose second sample is
\* 0.0005, with intervalstr "500.000ns"
C6_Witness ==
    /\ gpc = "built" /\ SecondSample = Dec(5, -4)
    /\ grp.intervalstr = "500.000ns"
    /\ grp.frequency = [kind |-> "num", n |-> TimeDen, d |-> 5 * Pow10(TimeDenExp - 4)]

\* the places of the list that ChannelsY holds
InChannelsY == {grp.ChannelsY[k] : k \in 1..Len(grp.ChannelsY)}

\* C11: a constructed Group loses no channel: every channel of the list is
\* either ChannelX or an element of ChannelsY, never both, so that ChannelX
\* with ChannelsY accounts for exactly the channels of Group.Channels, also
\* when more than one channel is marked isTime.
C11_NoChannelLost ==
    gpc = "built" =>
        /\ \A i \in 1..Len(chans) : (i = grp.ChannelX) # (i \in InChannelsY)
        /\ {grp.ChannelX} \cup InChannelsY
             = {grp.Channels[i] : i \in 1..Len(grp.Channels)}
        /\ Len(grp.ChannelsY) + 1 = Len(grp.Channels)

====
